---- MODULE Spec2Model ----
(***************************************************************************)
(* The transactional write buffer (txnWriteBuffer) of the KV client:       *)
(* pkg/kv/kvclient/kvcoord/txn_interceptor_write_buffer.go.                *)
(*                                                                         *)
(* Keys are modelled as the integers 1..NumKeys, ordered as the byte       *)
(* strings are; 0 stands for the nil key.  A value is a positive integer,  *)
(* 0 is the empty roachpb.Value (IsPresent() = false, the tombstone).      *)
(* Go slices are sequences; Go indexes (0-based) are kept as they are in   *)
(* `index` fields and error indexes.                                       *)
(***************************************************************************)
EXTENDS Integers, Sequences, FiniteSets, TLC

\* ------------------------------------------------------------------ bounds
NumKeys == 2
MaxSeq == 2
MaxBatch == 2
MaxLag == 1
MaxHooks == 2
\* The value a key holds in the store behind the wrapped sender; the values
\* a transaction writes are its sequence numbers 1..MaxSeq.
SrvVal == 9

\* ------------------------------------------------------- program constants
NilKey == 0
NoValue == 0
NoIndex == -1
LockNone == 0
LockExclusive == 3
KEY_VALUES == 0
BATCH_RESPONSE == 1
COL_BATCH_RESPONSE == 2

Keys == 1..NumKeys
EndKeys == 2..(NumKeys + 1)

\* ---------------------------------------------------------------- requests
\* One record shape for every request kind; fields a kind does not have are
\* left at their zero value.
Req(kind, key, endKey, val, seq, exp, allow, str, fmt) ==
    [kind |-> kind, key |-> key, endKey |-> endKey, val |-> val, seq |-> seq,
     exp |-> exp, allow |-> allow, str |-> str, lockNonExisting |-> FALSE,
     mustAcquireExclusiveLock |-> FALSE, fmt |-> fmt]

PutReq(k, v, s) == Req("Put", k, NilKey, v, s, NoValue, FALSE, LockNone, KEY_VALUES)
DelReq(k, s) == Req("Delete", k, NilKey, NoValue, s, NoValue, FALSE, LockNone, KEY_VALUES)
CPutReq(k, v, s, e, a) == Req("CPut", k, NilKey, v, s, e, a, LockNone, KEY_VALUES)
GetReq(k, s, str) == Req("Get", k, NilKey, NoValue, s, NoValue, FALSE, str, KEY_VALUES)
ScanReq(k, e, s, f) == Req("Scan", k, e, NoValue, s, NoValue, FALSE, LockNone, f)
RevScanReq(k, e, s, f) == Req("RevScan", k, e, NoValue, s, NoValue, FALSE, LockNone, f)
EndTxnReq == Req("EndTxn", NilKey, NilKey, NoValue, 0, NoValue, FALSE, LockNone, KEY_VALUES)
OtherReq(k, s) == Req("Other", k, NilKey, NoValue, s, NoValue, FALSE, LockNone, KEY_VALUES)

\* --------------------------------------------------------------- responses
\* `from` is the position, in the batch handed to the wrapped sender, of the
\* request a server response answers; locally synthesized responses have
\* from = NoIndex.
Resp(kind, val, rows, found, from) ==
    [kind |-> kind, val |-> val, rows |-> rows, found |-> found, from |-> from]

EmptyResp == Resp("None", NoValue, <<>>, FALSE, NoIndex)

IsPresent(v) == v # NoValue

\* ------------------------------------------------------------ buffer store
\* bufferedWrite{id, key, vals}; the stored endKey is never set.
NoWrite == [id |-> 0, key |-> NilKey, vals |-> <<>>]

BufferedValue(val, seq) == [val |-> val, seq |-> seq]

\* Order of the records in the tree: (key, endKey, id) with endKey nil.
Less(a, b) == a.key < b.key \/ (a.key = b.key /\ a.id < b.id)

\* Does the stored point record r overlap the seek item?  A seek item with a
\* nil endKey is the point seek.key, otherwise the range [key, endKey).
Overlaps(r, seek) ==
    /\ seek.key <= r.key
    /\ IF seek.endKey # NilKey THEN r.key < seek.endKey ELSE r.key <= seek.key

MinOf(S) == IF S = {} THEN NoWrite ELSE CHOOSE r \in S : \A q \in S : q = r \/ Less(r, q)
MaxOf(S) == IF S = {} THEN NoWrite ELSE CHOOSE r \in S : \A q \in S : q = r \/ Less(q, r)

Valid(it) == it # NoWrite

First(buf) == MinOf(buf)
IterNext(buf, it) == MinOf({r \in buf : Less(it, r)})
FirstOverlap(buf, seek) == MinOf({r \in buf : Overlaps(r, seek)})
LastOverlap(buf, seek) == MaxOf({r \in buf : Overlaps(r, seek)})
NextOverlap(buf, it, seek) == MinOf({r \in buf : Less(it, r) /\ Overlaps(r, seek)})
PrevOverlap(buf, it, seek) == MaxOf({r \in buf : Less(r, it) /\ Overlaps(r, seek)})
\* Set: a stored record that compares equal (same key and id) is replaced.
BtreeSet(buf, r) == {q \in buf : q.key # r.key \/ q.id # r.id} \cup {r}

\* The interceptor's mutable fields, threaded through the operators below.
Twb(buf, seek, alloc) == [buffer |-> buf, bufferSeek |-> seek, bufferIDAlloc |-> alloc]

\* maybeServeRead: [val, served] and the interceptor with its seek item set.
RECURSIVE LastVisible(_, _, _)
LastVisible(vals, i, seq) ==
    IF i = 0 THEN 0
    ELSE IF seq >= vals[i].seq THEN i
    ELSE LastVisible(vals, i - 1, seq)

\* The value maybeServeRead returns once the record under the iterator and the
\* index i of its newest value with seq' <= seq are known (0: none).
Served(twb, it, i) ==
    [twb |-> twb,
     val |-> IF i > 0 THEN it.vals[i].val ELSE NoValue,
     served |-> i > 0]

ServeFrom(twb, it, seq) ==
    Served(twb, it, IF Valid(it) THEN LastVisible(it.vals, Len(it.vals), seq) ELSE 0)

maybeServeRead(twb, key, seq) ==
    LET seek == [twb.bufferSeek EXCEPT !.key = key]
    IN ServeFrom([twb EXCEPT !.bufferSeek = seek], FirstOverlap(twb.buffer, seek), seq)

scanOverlaps(twb, key, endKey) ==
    LET seek == [key |-> key, endKey |-> endKey]
    IN [twb |-> [twb EXCEPT !.bufferSeek = seek],
        overlaps |-> Valid(FirstOverlap(twb.buffer, seek))]

\* addToBuffer putting the value in the place of the record's values.
addToBufferAtOverwriting(twb, it, key, val, seq) ==
    IF Valid(it)
    THEN [twb EXCEPT !.buffer = (twb.buffer \ {it}) \cup
                        {[it EXCEPT !.vals = <<BufferedValue(val, seq)>>]}]
    ELSE [twb EXCEPT !.bufferIDAlloc = twb.bufferIDAlloc + 1,
                     !.buffer = BtreeSet(twb.buffer,
                         [id |-> twb.bufferIDAlloc + 1, key |-> key,
                          vals |-> <<BufferedValue(val, seq)>>])]

\* addToBuffer once the record under the iterator is known: append to it, or
\* insert a new record under a fresh id.
addToBufferAt(twb, it, key, val, seq) ==
    IF Valid(it)
    THEN [twb EXCEPT !.buffer = (twb.buffer \ {it}) \cup
                        {[it EXCEPT !.vals = Append(it.vals, BufferedValue(val, seq))]}]
    ELSE [twb EXCEPT !.bufferIDAlloc = twb.bufferIDAlloc + 1,
                     !.buffer = BtreeSet(twb.buffer,
                         [id |-> twb.bufferIDAlloc + 1, key |-> key,
                          vals |-> <<BufferedValue(val, seq)>>])]

addToBuffer(twb, key, val, seq) ==
    LET seek == [twb.bufferSeek EXCEPT !.key = key]
    IN addToBufferAt([twb EXCEPT !.bufferSeek = seek],
                     FirstOverlap(twb.buffer, seek), key, val, seq)

\* ------------------------------------------------------------------ errors
Err(kind, index) == [kind |-> kind, index |-> index]
NoErr == Err("None", NoIndex)

\* ------------------------------------------------------------- scan merge
Row(key, val) == [key |-> key, val |-> val]

Compare(a, b) == IF a < b THEN -1 ELSE IF a = b THEN 0 ELSE 1

bufferNext(buf, it, seek, reverse) ==
    IF reverse THEN PrevOverlap(buf, it, seek) ELSE NextOverlap(buf, it, seek)

\* The state of the loops of mergeBufferAndResp: the interceptor, the buffer
\* iterator, idx = respIter.rowsIndex + 1 and the rows accepted so far.
MergeState(twb, it, idx, out) == [twb |-> twb, it |-> it, idx |-> idx, out |-> out]

\* The buffered key under the iterator is next (both: the server's row has
\* the same key): r is maybeServeRead's answer for it.  A served present
\* value is accepted, a served tombstone drops the key, and when the buffer
\* does not serve the read the server's row, if any, is accepted.
acceptBuffer(s, r, rows, reverse, both) ==
    MergeState(r.twb,
               bufferNext(s.twb.buffer, s.it, r.twb.bufferSeek, reverse),
               IF both THEN s.idx + 1 ELSE s.idx,
               IF r.served
               THEN (IF IsPresent(r.val) THEN Append(s.out, Row(s.it.key, r.val))
                     ELSE s.out)
               ELSE (IF both THEN Append(s.out, rows[s.idx]) ELSE s.out))

\* The server's row under the response iterator is next.
acceptResp(s, rows) == MergeState(s.twb, s.it, s.idx + 1, Append(s.out, rows[s.idx]))

DirCompare(s, rows, reverse) ==
    Compare(s.it.key, rows[s.idx].key) * (IF reverse THEN -1 ELSE 1)

\* One iteration of the three loops of mergeBufferAndResp.
MergeStep(s, rows, seq, reverse) ==
    IF s.idx <= Len(rows) /\ Valid(s.it)
    THEN (IF DirCompare(s, rows, reverse) = 1
          THEN acceptResp(s, rows)
          ELSE acceptBuffer(s, maybeServeRead(s.twb, s.it.key, seq), rows, reverse,
                            DirCompare(s, rows, reverse) = 0))
    ELSE IF s.idx <= Len(rows)
    THEN acceptResp(s, rows)
    ELSE acceptBuffer(s, maybeServeRead(s.twb, s.it.key, seq), rows, reverse, FALSE)

RECURSIVE MergeLoop(_, _, _, _)
MergeLoop(s, rows, seq, reverse) ==
    IF s.idx > Len(rows) /\ ~Valid(s.it) THEN s
    ELSE MergeLoop(MergeStep(s, rows, seq, reverse), rows, seq, reverse)

mergeBufferAndResp(twb, req, rows, reverse) ==
    LET seek == [key |-> req.key, endKey |-> req.endKey]
    IN MergeLoop(MergeState([twb EXCEPT !.bufferSeek = seek],
                            IF reverse THEN LastOverlap(twb.buffer, seek)
                                       ELSE FirstOverlap(twb.buffer, seek),
                            1, <<>>),
                 rows, req.seq, reverse)

\* mergeWithScanResp / mergeWithReverseScanResp: the counting pass, then the
\* materializing pass into a slice of respSize rows.  filled is the final
\* rowsIdx; toScanResp asserts filled = respSize and panics otherwise, as
\* does a write behind the last slot of the slice.
mergedResp(resp, respSize, pass2) ==
    [twb |-> pass2.twb,
     resp |-> [resp EXCEPT !.rows = pass2.out],
     err |-> IF Len(pass2.out) = respSize THEN "None" ELSE "Panic",
     respSize |-> respSize,
     filled |-> Len(pass2.out)]

\* The materializing pass into a slice sized for the server's rows alone.
materializeServerSized(pass1, req, resp, reverse) ==
    mergedResp(resp, Len(resp.rows), mergeBufferAndResp(pass1.twb, req, resp.rows, reverse))

materialize(pass1, req, resp, reverse) ==
    mergedResp(resp, Len(pass1.out), mergeBufferAndResp(pass1.twb, req, resp.rows, reverse))

mergeWithResp(twb, req, resp, reverse) ==
    IF req.fmt = COL_BATCH_RESPONSE \/ req.fmt = BATCH_RESPONSE
    THEN [twb |-> twb, resp |-> EmptyResp, err |-> "AssertionFailed",
          respSize |-> 0, filled |-> 0]
    ELSE materialize(mergeBufferAndResp(twb, req, resp.rows, reverse), req, resp, reverse)

mergeWithScanResp(twb, req, resp) == mergeWithResp(twb, req, resp, FALSE)
mergeWithReverseScanResp(twb, req, resp) == mergeWithResp(twb, req, resp, TRUE)

\* --------------------------------------------------------- transformations
Transformation(stripped, index, origRequest, resp) ==
    [stripped |-> stripped, index |-> index, origRequest |-> origRequest, resp |-> resp]

\* mvcceval.MaybeConditionFailedError: TRUE when the condition fails.
MaybeConditionFailedError(expBytes, actVal, actValPresent, allowNoExisting) ==
    LET expValPresent == expBytes # NoValue
    IN IF expValPresent /\ actValPresent
       THEN expBytes # actVal
       ELSE expValPresent # actValPresent /\ (actValPresent \/ ~allowNoExisting)

\* conditionFailedError without SetErrorIndex: the error carries no index.
conditionFailedErrorNoIndex(t) == Err("ConditionFailed", NoIndex)

\* The error of a failed condition: NewErrorWithTxn + SetErrorIndex(t.index).
conditionFailedError(t) == Err("ConditionFailed", t.index)

\* The outcome of toResp for a Scan/ReverseScan, m being the merge's result.
scanToResp(m) ==
    IF m.err # "None"
    THEN [twb |-> m.twb, ru |-> EmptyResp, pErr |-> Err(m.err, NoIndex)]
    ELSE [twb |-> m.twb, ru |-> [m.resp EXCEPT !.from = NoIndex], pErr |-> NoErr]

\* transformation.toResp: the response for the transformed request, or an
\* error; the interceptor after it.
toResp(t, twb, br) ==
    IF t.stripped
    THEN [twb |-> twb, ru |-> t.resp, pErr |-> NoErr]
    ELSE CASE t.origRequest.kind = "CPut" ->
                IF MaybeConditionFailedError(t.origRequest.exp, br.val,
                                             IsPresent(br.val), t.origRequest.allow)
                THEN [twb |-> twb, ru |-> EmptyResp, pErr |-> conditionFailedError(t)]
                ELSE [twb |-> addToBuffer(twb, t.origRequest.key, t.origRequest.val,
                                          t.origRequest.seq),
                      ru |-> Resp("CPut", NoValue, <<>>, FALSE, NoIndex),
                      pErr |-> NoErr]
           [] t.origRequest.kind \in {"Put", "Delete", "Get"} ->
                [twb |-> twb, ru |-> t.resp, pErr |-> NoErr]
           [] t.origRequest.kind \in {"Scan", "RevScan"} ->
                scanToResp(mergeWithResp(twb, t.origRequest, br,
                                         t.origRequest.kind = "RevScan"))

\* applyTransformations: one pass over the batch, left to right.  The state
\* of the pass is the interceptor, baRemote and the transformations.
\* The Get for a ConditionalPut with LockNonExisting taken from
\* AllowIfDoesNotExist alone.
LockingGetForAllowOnly(t) ==
    [GetReq(t.key, t.seq, LockExclusive) EXCEPT !.lockNonExisting = t.allow]

LockingGetFor(t) ==
    [GetReq(t.key, t.seq, LockExclusive) EXCEPT
        !.lockNonExisting = (t.exp = NoValue \/ t.allow)]

Applied(twb, baRemote, ts) == [twb |-> twb, baRemote |-> baRemote, ts |-> ts]

\* A Get, r being maybeServeRead's answer for its key.
applyGet(a, r, t, index) ==
    IF r.served
    THEN Applied(r.twb,
                 IF t.str = LockNone THEN a.baRemote ELSE Append(a.baRemote, t),
                 Append(a.ts, Transformation(t.str = LockNone, index, t,
                                  Resp("Get", r.val, <<>>, FALSE, NoIndex))))
    ELSE Applied(r.twb, Append(a.baRemote, t), a.ts)

\* A Scan or ReverseScan, r being scanOverlaps' answer for its span.
applyScan(a, r, t, index) ==
    Applied(r.twb, Append(a.baRemote, t),
            IF r.overlaps
            THEN Append(a.ts, Transformation(FALSE, index, t, EmptyResp))
            ELSE a.ts)

applyOne(a, t, index) ==
    CASE t.kind = "CPut" ->
           Applied(a.twb, Append(a.baRemote, LockingGetFor(t)),
                   Append(a.ts, Transformation(FALSE, index, t, EmptyResp)))
      [] t.kind = "Put" ->
           Applied(addToBuffer(a.twb, t.key, t.val, t.seq), a.baRemote,
                   Append(a.ts, Transformation(TRUE, index, t,
                              Resp("Put", NoValue, <<>>, FALSE, NoIndex))))
      [] t.kind = "Delete" ->
           Applied(addToBuffer(a.twb, t.key, NoValue, t.seq), a.baRemote,
                   Append(a.ts, Transformation(TRUE, index, t,
                              Resp("Delete", NoValue, <<>>, FALSE, NoIndex))))
      [] t.kind = "Get" ->
           applyGet(a, maybeServeRead(a.twb, t.key, t.seq), t, index)
      [] t.kind \in {"Scan", "RevScan"} ->
           applyScan(a, scanOverlaps(a.twb, t.key, t.endKey), t, index)
      [] OTHER ->
           Applied(a.twb, Append(a.baRemote, t), a.ts)

RECURSIVE ApplyLoop(_, _, _)
ApplyLoop(a, ba, i) ==
    IF i > Len(ba) THEN a
    ELSE ApplyLoop(applyOne(a, ba[i], i - 1), ba, i + 1)

applyTransformations(twb, ba) == ApplyLoop(Applied(twb, <<>>, <<>>), ba, 1)

\* The reply being assembled: the interceptor, the responses so far, and the
\* error that ends the assembly.
Reply(twb, resps, pErr) == [twb |-> twb, br |-> resps, pErr |-> pErr]

\* r is toResp's outcome for the next transformation: its response is
\* appended, or its error is returned with no response.
replyWith(s, r) ==
    IF r.pErr # NoErr
    THEN Reply(r.twb, <<>>, r.pErr)
    ELSE Reply(r.twb, Append(s.br, r.ru), NoErr)

\* LocalReply with a loop that stops one transformation early.
RECURSIVE LocalReplyShort(_, _, _)
LocalReplyShort(s, ts, i) ==
    IF i >= Len(ts) \/ s.pErr # NoErr THEN s
    ELSE LocalReplyShort(replyWith(s, toResp(ts[i], s.twb, EmptyResp)), ts, i + 1)

\* The all-stripped branch of SendLocked: br.Responses[i] = ts[i].toResp().
RECURSIVE LocalReply(_, _, _)
LocalReply(s, ts, i) ==
    IF i > Len(ts) \/ s.pErr # NoErr THEN s
    ELSE LocalReply(replyWith(s, toResp(ts[i], s.twb, EmptyResp)), ts, i + 1)

\* mergeResponseWithTransformations: i is the Go loop index, n the length of
\* the merged slice, resps what is left of br.Responses.
\* NumStripped when the stripped requests are not counted.
NumStrippedNone(ts) == 0

NumStripped(ts) == Cardinality({j \in 1..Len(ts) : ts[j].stripped})

RECURSIVE MergeRespLoop(_, _, _, _, _)
MergeRespLoop(s, ts, resps, i, n) ==
    IF i >= n \/ s.pErr # NoErr THEN s
    ELSE IF Len(ts) > 0 /\ ts[1].index = i
    THEN MergeRespLoop(replyWith(s, toResp(ts[1], s.twb,
                                           IF ts[1].stripped THEN EmptyResp
                                           ELSE resps[1])),
                       Tail(ts),
                       IF ts[1].stripped THEN resps ELSE Tail(resps),
                       i + 1, n)
    ELSE MergeRespLoop(Reply(s.twb, Append(s.br, resps[1]), NoErr),
                       ts, Tail(resps), i + 1, n)

mergeResponseWithTransformations(twb, ts, resps) ==
    IF Len(ts) = 0 THEN Reply(twb, resps, NoErr)
    ELSE MergeRespLoop(Reply(twb, <<>>, NoErr), ts, resps, 0,
                       Len(resps) + NumStripped(ts))

\* The loop of adjustError with a non-stripped transformation passed over as
\* one more forwarded request.
RECURSIVE AdjustLoopLenient(_, _, _, _, _, _)
AdjustLoopLenient(ts, i, n, baIdx, errIdx, numStripped) ==
    IF i >= n THEN [numStripped |-> numStripped, fatal |-> FALSE]
    ELSE IF Len(ts) > 0 /\ ts[1].index = i /\ ts[1].stripped
    THEN AdjustLoopLenient(Tail(ts), i + 1, n, baIdx, errIdx, numStripped + 1)
    ELSE IF baIdx = errIdx
    THEN [numStripped |-> numStripped, fatal |-> FALSE]
    ELSE AdjustLoopLenient(IF Len(ts) > 0 /\ ts[1].index = i THEN Tail(ts) ELSE ts,
                           i + 1, n, baIdx + 1, errIdx, numStripped)

\* adjustError: the loop over the original indexes; fatal is log.Fatal.
RECURSIVE AdjustLoop(_, _, _, _, _, _)
AdjustLoop(ts, i, n, baIdx, errIdx, numStripped) ==
    IF i >= n THEN [numStripped |-> numStripped, fatal |-> FALSE]
    ELSE IF Len(ts) > 0 /\ ts[1].index = i
    THEN IF ts[1].stripped
         THEN AdjustLoop(Tail(ts), i + 1, n, baIdx, errIdx, numStripped + 1)
         ELSE [numStripped |-> numStripped, fatal |-> TRUE]
    ELSE IF baIdx = errIdx
    THEN [numStripped |-> numStripped, fatal |-> FALSE]
    ELSE AdjustLoop(ts, i + 1, n, baIdx + 1, errIdx, numStripped)

adjustError(baRemote, ts, pErr) ==
    IF pErr.index # NoIndex
    THEN LET r == AdjustLoop(ts, 0, Len(baRemote) + Len(ts), 0, pErr.index, 0)
         IN [pErr |-> [pErr EXCEPT !.index = pErr.index + r.numStripped],
             fatal |-> r.fatal]
    ELSE [pErr |-> pErr, fatal |-> FALSE]

\* adjustErrorUponFlush with the index numBuffered itself taken for one of the
\* flushed writes.
adjustErrorUponFlushInclusive(numBuffered, pErr) ==
    IF pErr.index # NoIndex
    THEN IF pErr.index <= numBuffered
         THEN [pErr EXCEPT !.index = NoIndex]
         ELSE [pErr EXCEPT !.index = pErr.index - numBuffered]
    ELSE pErr

adjustErrorUponFlush(numBuffered, pErr) ==
    IF pErr.index # NoIndex
    THEN IF pErr.index < numBuffered
         THEN [pErr EXCEPT !.index = NoIndex]
         ELSE [pErr EXCEPT !.index = pErr.index - numBuffered]
    ELSE pErr

\* bufferedWrite.toRequest: the last value of the record, as a Put or Delete.
toRequest(bw) ==
    LET val == bw.vals[Len(bw.vals)]
    IN IF IsPresent(val.val) THEN PutReq(bw.key, val.val, val.seq)
       ELSE DelReq(bw.key, val.seq)

\* The flush prefix: one request per record, in tree order.
RECURSIVE FlushReqs(_, _, _)
FlushReqs(buf, it, reqs) ==
    IF ~Valid(it) THEN reqs
    ELSE FlushReqs(buf, IterNext(buf, it), Append(reqs, toRequest(it)))

\* s without its last n elements.
SubSeqUpTo(s, n) == SubSeq(s, 1, Len(s) - n)

\* s[n:]: s without its first n elements.
SubSeqFrom(s, n) == SubSeq(s, n + 1, Len(s))

\* ------------------------------------------------------ leaf export/import
\* roachpb.LeafTxnInputState.BufferedWrites: a list of roachpb.BufferedWrite
\* {ID, Key, Vals}, each of Vals a roachpb.BufferedWrite_Val {Val, Seq}.
exportVals(vals) == [n \in 1..Len(vals) |-> [Val |-> vals[n].val, Seq |-> vals[n].seq]]

\* The exported write with its ID left at the zero value.
exportWriteNoID(bw) == [ID |-> 0, Key |-> bw.key, Vals |-> exportVals(bw.vals)]

exportWrite(bw) == [ID |-> bw.id, Key |-> bw.key, Vals |-> exportVals(bw.vals)]

RECURSIVE ExportLoop(_, _, _)
ExportLoop(buf, it, out) ==
    IF ~Valid(it) THEN out
    ELSE ExportLoop(buf, IterNext(buf, it), Append(out, exportWrite(it)))

\* populateLeafInputState: the BufferedWrites field of tis afterwards.
populateLeafInputState(on, buf, writes) ==
    IF ~on \/ Cardinality(buf) = 0 THEN writes
    ELSE ExportLoop(buf, First(buf), <<>>)

importVals(Vals) == [n \in 1..Len(Vals) |-> BufferedValue(Vals[n].Val, Vals[n].Seq)]

importWrite(bw) == [id |-> bw.ID, key |-> bw.Key, vals |-> importVals(bw.Vals)]

RECURSIVE ImportLoop(_, _, _)
ImportLoop(buf, writes, i) ==
    IF i > Len(writes) THEN buf
    ELSE ImportLoop(BtreeSet(buf, importWrite(writes[i])), writes, i + 1)

\* initializeLeaf leaving the interceptor enabled whatever the list holds.
initializeLeafEnabled(buf, writes) ==
    [enabled |-> TRUE, buffer |-> ImportLoop(buf, writes, 1)]

\* initializeLeaf on an interceptor with the buffer buf: [enabled, buffer].
initializeLeaf(buf, writes) ==
    IF Len(writes) = 0 THEN [enabled |-> FALSE, buffer |-> buf]
    ELSE [enabled |-> TRUE, buffer |-> ImportLoop(buf, writes, 1)]

\* The orders in which the entries of a list can be transmitted.
Reorderings(s) ==
    {[i \in 1..Len(s) |-> s[p[i]]] :
        p \in {q \in [1..Len(s) -> 1..Len(s)] : \A i, j \in 1..Len(s) : q[i] = q[j] => i = j}}

\* ------------------------------------------------------ the wrapped sender
\* The store the wrapped sender reads from: key -> value, NoValue if absent.
RECURSIVE RowsAsc(_, _, _)
RowsAsc(store, k, e) ==
    IF k >= e THEN <<>>
    ELSE (IF IsPresent(store[k]) THEN <<Row(k, store[k])>> ELSE <<>>)
         \o RowsAsc(store, k + 1, e)

RECURSIVE RowsDesc(_, _, _)
RowsDesc(store, k, e) ==
    IF k >= e THEN <<>>
    ELSE (IF IsPresent(store[e - 1]) THEN <<Row(e - 1, store[e - 1])>> ELSE <<>>)
         \o RowsDesc(store, k, e - 1)

ServerResp(store, req, j) ==
    CASE req.kind = "Get" -> Resp("Get", store[req.key], <<>>, FALSE, j)
      [] req.kind = "Scan" -> Resp("Scan", NoValue, RowsAsc(store, req.key, req.endKey), FALSE, j)
      [] req.kind = "RevScan" -> Resp("RevScan", NoValue, RowsDesc(store, req.key, req.endKey), FALSE, j)
      [] req.kind = "Delete" -> Resp("Delete", NoValue, <<>>, IsPresent(store[req.key]), j)
      [] OTHER -> Resp(req.kind, NoValue, <<>>, FALSE, j)

wrappedSendLocked(store, sentBa) ==
    [j \in 1..Len(sentBa) |-> ServerResp(store, sentBa[j], j - 1)]

\* ------------------------------------------------------------- SendLocked
\* The outcome of the wrapped sender is an input: srvErr = NoErr when it
\* succeeds (it then answers from store), an error otherwise.
Result(twb, sentBa, called, srv, resps, pErr, fatal) ==
    [twb |-> twb, sent |-> sentBa, called |-> called, srv |-> srv,
     br |-> resps, pErr |-> pErr, fatal |-> fatal, ts |-> <<>>]

\* flushWithEndTxn after the wrapped sender answered reqs with srv or srvErr.
flushReply(twb, numBuffered, reqs, srv, srvErr) ==
    IF numBuffered = 0
    THEN (IF srvErr # NoErr
          THEN Result(twb, reqs, TRUE, <<>>, <<>>, srvErr, FALSE)
          ELSE Result(twb, reqs, TRUE, srv, srv, NoErr, FALSE))
    ELSE (IF srvErr # NoErr
          THEN Result(twb, reqs, TRUE, <<>>, <<>>,
                      adjustErrorUponFlush(numBuffered, srvErr), FALSE)
          ELSE Result(twb, reqs, TRUE, srv, SubSeqFrom(srv, numBuffered), NoErr, FALSE))

flushSend(twb, store, numBuffered, reqs, srvErr) ==
    flushReply(twb, numBuffered, reqs, wrappedSendLocked(store, reqs), srvErr)

\* flushWithEndTxn with the writes of the batch buffered as well.
flushWithEndTxnBuffering(twb, store, clientBa, srvErr) ==
    flushSend(applyTransformations(twb, clientBa).twb, store, Cardinality(twb.buffer),
              IF Cardinality(twb.buffer) = 0 THEN clientBa
              ELSE FlushReqs(twb.buffer, First(twb.buffer), <<>>) \o clientBa,
              srvErr)

\* flushWithEndTxn emptying the buffer once its writes are in the batch.
flushWithEndTxnClearing(twb, store, clientBa, srvErr) ==
    flushSend([twb EXCEPT !.buffer = {}], store, Cardinality(twb.buffer),
              IF Cardinality(twb.buffer) = 0 THEN clientBa
              ELSE FlushReqs(twb.buffer, First(twb.buffer), <<>>) \o clientBa,
              srvErr)

flushWithEndTxn(twb, store, clientBa, srvErr) ==
    flushSend(twb, store, Cardinality(twb.buffer),
              IF Cardinality(twb.buffer) = 0 THEN clientBa
              ELSE FlushReqs(twb.buffer, First(twb.buffer), <<>>) \o clientBa,
              srvErr)

HasEndTxn(b) == \E i \in 1..Len(b) : b[i].kind = "EndTxn"

\* SendLocked's three ways out once the batch is transformed into tr.
localResult(tr, r) ==
    [Result(r.twb, <<>>, FALSE, <<>>, r.br, r.pErr, FALSE) EXCEPT !.ts = tr.ts]

errorResult(tr, a) ==
    [Result(tr.twb, tr.baRemote, TRUE, <<>>, <<>>, a.pErr, a.fatal) EXCEPT !.ts = tr.ts]

\* The way out with the buffer of before the responses were merged when the
\* merge fails.
remoteResultUndoing(tr, srv, m) ==
    [Result(IF m.pErr # NoErr THEN tr.twb ELSE m.twb, tr.baRemote, TRUE, srv, m.br, m.pErr,
            m.pErr.kind = "Panic")
        EXCEPT !.ts = tr.ts]

remoteResult(tr, srv, m) ==
    [Result(m.twb, tr.baRemote, TRUE, srv, m.br, m.pErr, m.pErr.kind = "Panic")
        EXCEPT !.ts = tr.ts]

mergeRemote(tr, srv) ==
    remoteResult(tr, srv, mergeResponseWithTransformations(tr.twb, tr.ts, srv))

sendTransformed(tr, store, srvErr) ==
    IF Len(tr.baRemote) = 0
    THEN localResult(tr, LocalReply(Reply(tr.twb, <<>>, NoErr), tr.ts, 1))
    ELSE IF srvErr # NoErr
    THEN errorResult(tr, adjustError(tr.baRemote, tr.ts, srvErr))
    ELSE mergeRemote(tr, wrappedSendLocked(store, tr.baRemote))

\* The disabled interceptor with the blind writes kept back from the wrapped
\* sender.
passThroughNoWrites(twb, store, clientBa, srvErr) ==
    IF srvErr # NoErr
    THEN Result(twb, SelectSeq(clientBa, LAMBDA q : q.kind \notin {"Put", "Delete"}), TRUE, <<>>, <<>>,
                srvErr, FALSE)
    ELSE Result(twb, SelectSeq(clientBa, LAMBDA q : q.kind \notin {"Put", "Delete"}), TRUE,
                wrappedSendLocked(store, clientBa),
                wrappedSendLocked(store, clientBa), NoErr, FALSE)

\* The disabled interceptor: twb.wrapped.SendLocked(ctx, ba).
passThrough(twb, store, clientBa, srvErr) ==
    IF srvErr # NoErr
    THEN Result(twb, clientBa, TRUE, <<>>, <<>>, srvErr, FALSE)
    ELSE Result(twb, clientBa, TRUE, wrappedSendLocked(store, clientBa),
                wrappedSendLocked(store, clientBa), NoErr, FALSE)

SendLockedResult(on, twb, store, clientBa, srvErr) ==
    IF ~on
    THEN passThrough(twb, store, clientBa, srvErr)
    ELSE IF HasEndTxn(clientBa)
    THEN flushWithEndTxn(twb, store, clientBa, srvErr)
    ELSE sendTransformed(applyTransformations(twb, clientBa), store, srvErr)

\* ------------------------------------------------------ the client's input
\* Sequence numbers are assigned by the client above this interceptor: every
\* write gets the next write sequence number, a read the current one (auto)
\* or the read sequence number of an earlier step (readSeq >= 0).
Auto == -1
Formats == {KEY_VALUES, BATCH_RESPONSE, COL_BATCH_RESPONSE}
Strengths == {LockNone, LockExclusive}

PutShapes == {PutReq(k, 0, 0) : k \in Keys}
DelShapes == {DelReq(k, 0) : k \in Keys}
CPutShapes == {CPutReq(k, 0, 0, e, a) : k \in Keys, e \in {NoValue, SrvVal}, a \in BOOLEAN}
GetShapes == {GetReq(k, 0, str) : k \in Keys, str \in Strengths}
Ranges == {<<k, e>> \in Keys \X EndKeys : k < e}
ScanShapes == {ScanReq(r[1], r[2], 0, f) : r \in Ranges, f \in Formats}
RevScanShapes == {RevScanReq(r[1], r[2], 0, f) : r \in Ranges, f \in Formats}
KVScanShapes == {q \in ScanShapes \cup RevScanShapes : q.fmt = KEY_VALUES}
\* Puts and Deletes with the MustAcquireExclusiveLock flag set.
LockingWriteShapes ==
    {[q EXCEPT !.mustAcquireExclusiveLock = TRUE] : q \in PutShapes \cup DelShapes}
EndTxnShapes == {EndTxnReq}
OtherShapes == {OtherReq(1, 0)}

IsWrite(q) == q.kind \in {"Put", "Delete", "CPut"}
IsRead(q) == q.kind \in {"Get", "Scan", "RevScan"}

NumWrites(b) == Cardinality({i \in 1..Len(b) : IsWrite(b[i])})

RECURSIVE AssignSeqs(_, _, _, _, _)
AssignSeqs(b, i, cur, mode, out) ==
    IF i > Len(b) THEN out
    ELSE LET q == b[i] IN
         IF IsWrite(q)
         THEN AssignSeqs(b, i + 1, cur + 1, mode,
                Append(out, [q EXCEPT !.seq = cur + 1,
                                      !.val = IF q.kind = "Delete" THEN NoValue
                                              ELSE cur + 1]))
         ELSE IF IsRead(q)
         THEN AssignSeqs(b, i + 1, cur, mode,
                Append(out, [q EXCEPT !.seq = IF mode = Auto THEN cur ELSE mode]))
         ELSE IF q.kind = "Other"
         THEN AssignSeqs(b, i + 1, cur, mode, Append(out, [q EXCEPT !.seq = cur]))
         ELSE AssignSeqs(b, i + 1, cur, mode, Append(out, q))

ReadModes(w0) == {Auto} \cup {IF w0 >= l THEN w0 - l ELSE 0 : l \in 1..MaxLag}

Batches(W, w0) ==
    {AssignSeqs(b, 1, w0, mode, <<>>) :
        b \in {c \in UNION {[1..n -> W] : n \in 1..MaxBatch} : w0 + NumWrites(c) <= MaxSeq},
        mode \in ReadModes(w0)}

SrvErrors(n) == {Err("Server", j) : j \in {NoIndex} \cup 0..(n - 1)}

\* ------------------------------------------------------------------- state
\* enabled .. bufferIDAlloc are the interceptor's fields; isLeaf tells whether
\* the interceptor is the one of a leaf, tis is the LeafTxnInputState in
\* flight.  kv .. written are the wrapped sender's store and the client:
\* written holds every write the client handed to SendLocked.  The
\* others are the last call of SendLocked: its batch, what the wrapped sender
\* got (sent) and answered (srv, srvErr), the transformations (ts) and the
\* reply (br, pErr).
VARIABLES enabled, buffer, bufferSeek, bufferIDAlloc, isLeaf, tis, hook,
          kv, writeSeq, acked, written,
          phase, ba, sent, called, srv, srvErr, ts, br, pErr

twbVars == <<enabled, buffer, bufferSeek, bufferIDAlloc>>
leafVars == <<isLeaf, tis>>
envVars == <<kv, writeSeq, acked, written>>
callVars == <<phase, ba, sent, called, srv, srvErr, ts, br, pErr>>
vars == <<enabled, buffer, bufferSeek, bufferIDAlloc, isLeaf, tis, hook, kv, writeSeq, acked, written,
          phase, ba, sent, called, srv, srvErr, ts, br, pErr>>

\* hook is the last of the transaction hooks invoked on the interceptor, with
\* the sequence number of its savepoint, and how many were invoked.
Hook(kind, seqNum, n) == [kind |-> kind, seqNum |-> seqNum, n |-> n]
NoHook == Hook("none", 0, 0)

\* No LeafTxnInputState has been populated.
NoTis == [populated |-> FALSE, BufferedWrites |-> <<>>]

Init ==
    /\ enabled \in BOOLEAN
    /\ buffer = {}
    /\ bufferSeek = [key |-> NilKey, endKey |-> NilKey]
    /\ bufferIDAlloc = 0
    /\ isLeaf = FALSE
    /\ tis = NoTis
    /\ hook = NoHook
    /\ kv \in [Keys -> {NoValue, SrvVal}]
    /\ writeSeq = 0
    /\ acked = {}
    /\ written = {}
    /\ phase = "idle"
    /\ ba = <<>>
    /\ sent = <<>>
    /\ called = FALSE
    /\ srv = <<>>
    /\ srvErr = NoErr
    /\ ts = <<>>
    /\ br = <<>>
    /\ pErr = NoErr

\* Keys of the writes of clientBa; they are acknowledged when the enabled
\* interceptor answers a batch without EndTxn with a response.
\* The writes of clientBa: the key, the value and the sequence number of each.
Writes(clientBa) ==
    {[key |-> clientBa[i].key, val |-> clientBa[i].val, seq |-> clientBa[i].seq] :
        i \in {j \in 1..Len(clientBa) : IsWrite(clientBa[j])}}

WriteKeys(clientBa) == {clientBa[i].key : i \in {j \in 1..Len(clientBa) : IsWrite(clientBa[j])}}

Install(clientBa, e, r) ==
    /\ buffer' = r.twb.buffer
    /\ bufferSeek' = r.twb.bufferSeek
    /\ bufferIDAlloc' = r.twb.bufferIDAlloc
    /\ writeSeq' = writeSeq + NumWrites(clientBa)
    /\ acked' = IF enabled /\ ~HasEndTxn(clientBa) /\ r.pErr = NoErr /\ ~r.fatal
                THEN acked \cup WriteKeys(clientBa) ELSE acked
    /\ written' = written \cup Writes(clientBa)
    /\ phase' = IF r.fatal THEN "crashed" ELSE "replied"
    /\ ba' = clientBa
    /\ sent' = r.sent
    /\ called' = r.called
    /\ srv' = r.srv
    /\ srvErr' = IF r.called THEN e ELSE NoErr
    /\ ts' = r.ts
    /\ br' = r.br
    /\ pErr' = r.pErr
    /\ UNCHANGED <<enabled, kv, leafVars, hook>>

\* SendLocked with a wrapped sender that succeeds (or is not invoked).
SendLockedOk(W) ==
    /\ phase = "idle"
    /\ \E clientBa \in Batches(W, writeSeq) :
         Install(clientBa, NoErr,
                 SendLockedResult(enabled, Twb(buffer, bufferSeek, bufferIDAlloc),
                                  kv, clientBa, NoErr))

\* SendLocked with a wrapped sender that returns an error; ok is the call's
\* outcome with a wrapped sender that succeeds: it tells whether the wrapped
\* sender is invoked, and with how many requests.
SendLockedFailing(clientBa, ok) ==
    /\ ok.called
    /\ \E e \in SrvErrors(Len(ok.sent)) :
         Install(clientBa, e,
                 SendLockedResult(enabled, Twb(buffer, bufferSeek, bufferIDAlloc),
                                  kv, clientBa, e))

SendLockedErr(W) ==
    /\ phase = "idle"
    /\ \E clientBa \in Batches(W, writeSeq) :
         SendLockedFailing(clientBa,
                           SendLockedResult(enabled, Twb(buffer, bufferSeek, bufferIDAlloc),
                                            kv, clientBa, NoErr))

\* The caller takes the reply; the interceptor is ready for the next batch.
Return ==
    /\ phase = "replied"
    /\ phase' = "idle"
    /\ ba' = <<>>
    /\ sent' = <<>>
    /\ called' = FALSE
    /\ srv' = <<>>
    /\ srvErr' = NoErr
    /\ ts' = <<>>
    /\ br' = <<>>
    /\ pErr' = NoErr
    /\ UNCHANGED <<twbVars, leafVars, hook, envVars>>

\* The root fills the LeafTxnInputState for a leaf transaction.
PopulateLeafInputState ==
    /\ phase = "idle" /\ ~isLeaf /\ ~tis.populated
    /\ tis' = [populated |-> TRUE,
               BufferedWrites |-> populateLeafInputState(enabled, buffer, tis.BufferedWrites)]
    /\ UNCHANGED <<twbVars, isLeaf, hook, envVars, callVars>>

\* A fresh interceptor is initialized as the leaf's from the transmitted
\* state; from here on the interceptor followed is the leaf's.
InitializeLeaf ==
    /\ phase = "idle" /\ ~isLeaf /\ tis.populated
    /\ \E writes \in Reorderings(tis.BufferedWrites) :
         /\ enabled' = initializeLeaf({}, writes).enabled
         /\ buffer' = initializeLeaf({}, writes).buffer
    /\ bufferSeek' = [key |-> NilKey, endKey |-> NilKey]
    /\ bufferIDAlloc' = 0
    /\ isLeaf' = TRUE
    /\ UNCHANGED <<tis, hook, envVars, callVars>>

\* createSavepointLocked, rollbackToSavepointLocked and epochBumpedLocked:
\* their bodies are empty.  The savepoint of createSavepointLocked is taken
\* at the current write sequence number, the one rolled back to is any
\* earlier one.
CreateSavepointLocked ==
    /\ phase = "idle" /\ hook.n < MaxHooks
    /\ hook' = Hook("createSavepoint", writeSeq, hook.n + 1)
    /\ UNCHANGED <<twbVars, leafVars, envVars, callVars>>

RollbackToSavepointLocked ==
    /\ phase = "idle" /\ hook.n < MaxHooks
    /\ \E s \in 0..writeSeq :
         hook' = Hook("rollbackToSavepoint", s, hook.n + 1)
    /\ UNCHANGED <<twbVars, leafVars, envVars, callVars>>

EpochBumpedLocked ==
    /\ phase = "idle" /\ hook.n < MaxHooks
    /\ hook' = Hook("epochBumped", 0, hook.n + 1)
    /\ UNCHANGED <<twbVars, leafVars, envVars, callVars>>

\* closeLocked: its body is empty as well.
CloseLocked ==
    /\ phase = "idle" /\ hook.n < MaxHooks
    /\ hook' = Hook("close", 0, hook.n + 1)
    /\ UNCHANGED <<twbVars, leafVars, envVars, callVars>>

\* ---------------------------------------------------------- specifications
\* Every request kind, with the scans over the whole key space.
FullRange == {q \in ScanShapes \cup RevScanShapes : q.key = 1 /\ q.endKey = NumKeys + 1}
WMix == PutShapes \cup DelShapes \cup {q \in CPutShapes : ~q.allow} \cup GetShapes
        \cup {q \in FullRange : q.fmt = KEY_VALUES \/ (q.kind = "Scan" /\ q.fmt = BATCH_RESPONSE)}
        \cup EndTxnShapes \cup OtherShapes

Next == SendLockedOk(WMix) \/ SendLockedErr(WMix) \/ Return

Spec == Init /\ [][Next]_vars

\* Blind writes, point reads and scans over every range, both directions.
WRW == PutShapes \cup DelShapes \cup GetShapes \cup KVScanShapes

NextRW == SendLockedOk(WRW) \/ Return

SpecRW == Init /\ [][NextRW]_vars

\* Blind writes, conditional puts, forward scans and the commit.
WCP == PutShapes \cup DelShapes \cup CPutShapes \cup EndTxnShapes
       \cup {q \in ScanShapes : q.fmt = KEY_VALUES}

NextCP == SendLockedOk(WCP) \/ SendLockedErr(WCP) \/ Return

SpecCP == Init /\ [][NextCP]_vars

\* A root and the leaf made from it: blind writes, conditional puts and
\* non-locking point reads.
WLeaf == PutShapes \cup DelShapes \cup {q \in CPutShapes : ~q.allow /\ q.exp = NoValue}
         \cup {q \in GetShapes : q.str = LockNone}

NextLeaf == SendLockedOk(WLeaf) \/ Return \/ PopulateLeafInputState \/ InitializeLeaf

SpecLeaf == Init /\ [][NextLeaf]_vars

\* Blind writes, with and without lock acquisition, the commit and the
\* transaction hooks.
WSP == PutShapes \cup DelShapes \cup LockingWriteShapes \cup EndTxnShapes

NextSP == SendLockedOk(WSP) \/ Return \/ CreateSavepointLocked
          \/ RollbackToSavepointLocked \/ EpochBumpedLocked

SpecSP == Init /\ [][NextSP]_vars

\* Blind writes and scans over every range, in both directions and in every
\* format.
WFmt == PutShapes \cup DelShapes \cup ScanShapes \cup RevScanShapes

NextFmt == SendLockedOk(WFmt) \/ Return

SpecFmt == Init /\ [][NextFmt]_vars

\* Every operation of a root's interceptor: blind writes, a conditional put
\* and the commit, with a wrapped sender that succeeds or fails, the scan of
\* the whole key space with one that succeeds, the transaction hooks and the
\* export to a leaf.
WOps == PutShapes \cup {q \in DelShapes : q.key = 1}
        \cup {q \in CPutShapes : q.key = 2 /\ ~q.allow /\ q.exp = NoValue}
        \cup EndTxnShapes
WOpsOk == WOps \cup {q \in FullRange : q.kind = "Scan" /\ q.fmt = KEY_VALUES}

NextOps == SendLockedOk(WOpsOk) \/ SendLockedErr(WOps) \/ Return
           \/ CreateSavepointLocked \/ RollbackToSavepointLocked \/ EpochBumpedLocked
           \/ CloseLocked \/ PopulateLeafInputState

SpecOps == Init /\ [][NextOps]_vars

\* ------------------------------------------------------------ properties
\* The interceptor answered a batch without EndTxn while enabled.
Replied == phase = "replied" /\ enabled /\ ~HasEndTxn(ba)
Answered == Replied /\ pErr = NoErr

\* Every (value, seq) buffered under key k.
EntriesOf(buf, k) ==
    UNION {{r.vals[n] : n \in 1..Len(r.vals)} : r \in {q \in buf : q.key = k}}

VisibleAt(buf, k, s) == {e \in EntriesOf(buf, k) : e.seq <= s}

Newest(E) == CHOOSE e \in E : \A f \in E : f.seq <= e.seq

\* The rows a scan of [k, e) at sequence s has to return: for each key the
\* newest visible buffered value if there is one (no row for a tombstone),
\* the server's row otherwise.
ExpectedRow(buf, store, k, s) ==
    LET vis == VisibleAt(buf, k, s)
    IN IF vis # {}
       THEN (IF IsPresent(Newest(vis).val) THEN <<Row(k, Newest(vis).val)>> ELSE <<>>)
       ELSE (IF IsPresent(store[k]) THEN <<Row(k, store[k])>> ELSE <<>>)

RECURSIVE ExpectedAsc(_, _, _, _, _)
ExpectedAsc(buf, store, k, e, s) ==
    IF k >= e THEN <<>>
    ELSE ExpectedRow(buf, store, k, s) \o ExpectedAsc(buf, store, k + 1, e, s)

RECURSIVE ExpectedDesc(_, _, _, _, _)
ExpectedDesc(buf, store, k, e, s) ==
    IF k >= e THEN <<>>
    ELSE ExpectedRow(buf, store, e - 1, s) \o ExpectedDesc(buf, store, k, e - 1, s)

HasEntry(buf, k, v, s) == BufferedValue(v, s) \in EntriesOf(buf, k)
SeqBuffered(buf, s) == \E r \in buf : \E n \in 1..Len(r.vals) : r.vals[n].seq = s

\* C1: a Get on key K at sequence s is answered with the value of K's buffered
\* entry with the greatest seq <= s (empty for a tombstone); when K has
\* buffered entries but none with seq <= s, the Get is answered by the wrapped
\* sender.
C1_ReadYourOwnWrites ==
    Answered =>
        \A i \in 1..Len(ba) :
            ba[i].kind = "Get" =>
                LET vis == VisibleAt(buffer, ba[i].key, ba[i].seq)
                IN IF vis # {}
                   THEN br[i].val = Newest(vis).val
                   ELSE EntriesOf(buffer, ba[i].key) # {} =>
                            br[i].from # NoIndex /\ br[i].val = kv[ba[i].key]

\* C2: the rows of a merged ScanResponse are the expected rows in ascending
\* key order, no key twice.
C2_ForwardScanMerge ==
    Answered =>
        \A i \in 1..Len(ba) :
            (ba[i].kind = "Scan" /\ ba[i].fmt = KEY_VALUES) =>
                br[i].rows = ExpectedAsc(buffer, kv, ba[i].key, ba[i].endKey, ba[i].seq)

\* C3: the rows of a merged ReverseScanResponse are the expected rows in
\* descending key order.
C3_ReverseScanMerge ==
    Answered =>
        \A i \in 1..Len(ba) :
            (ba[i].kind = "RevScan" /\ ba[i].fmt = KEY_VALUES) =>
                br[i].rows = ExpectedDesc(buffer, kv, ba[i].key, ba[i].endKey, ba[i].seq)

\* The requests the flush put in front of the caller's batch.
FlushPrefix == SubSeq(sent, 1, Len(sent) - Len(ba))
Flushed == phase = "replied" /\ enabled /\ HasEndTxn(ba)

\* C4: after a successful batch with EndTxn every buffered key has exactly
\* one write in the flush prefix, carrying the key's highest-seq value.
C4_FlushDeterminism ==
    (Flushed /\ pErr = NoErr) =>
        \A k \in {r.key : r \in buffer} :
            LET J == {j \in 1..Len(FlushPrefix) : FlushPrefix[j].key = k}
                e == Newest(EntriesOf(buffer, k))
            IN /\ Cardinality(J) = 1
               /\ \A j \in J :
                    FlushPrefix[j] = IF IsPresent(e.val) THEN PutReq(k, e.val, e.seq)
                                     ELSE DelReq(k, e.seq)

\* C5: every key with an acknowledged write is the key of a Put or Delete of
\* the flush prefix of a batch with EndTxn.
C5_NoWriteLost ==
    Flushed =>
        \A k \in acked :
            \E j \in 1..Len(FlushPrefix) :
                FlushPrefix[j].kind \in {"Put", "Delete"} /\ FlushPrefix[j].key = k

\* C6: no Put or Delete of a batch without EndTxn is forwarded; each is in
\* the buffer under its key with its value (tombstone) and seq, and is
\* answered at its index with an empty PutResponse, a DeleteResponse with
\* FoundKey = false.
C6_BlindWritesBuffered ==
    Replied =>
        /\ \A j \in 1..Len(sent) : sent[j].kind \notin {"Put", "Delete"}
        /\ \A i \in 1..Len(ba) :
             ba[i].kind \in {"Put", "Delete"} =>
                /\ HasEntry(buffer, ba[i].key, ba[i].val, ba[i].seq)
                /\ pErr = NoErr =>
                     br[i] = Resp(ba[i].kind, NoValue, <<>>, FALSE, NoIndex)

\* C7: a batch whose requests are all stripped is not sent: the wrapped
\* sender is not invoked, and the reply has one synthesized response per
\* request at the request's index.  The wrapped sender is never handed an
\* empty batch.
OnlyBlindWrites(b) == \A i \in 1..Len(b) : b[i].kind \in {"Put", "Delete"}

C7_EmptyBatchNotSent ==
    Replied =>
        /\ OnlyBlindWrites(ba) => ~called
        /\ called <=> sent # <<>>
        /\ ~called =>
             /\ pErr = NoErr
             /\ Len(br) = Len(ba)
             /\ \A i \in 1..Len(ba) :
                  /\ br[i].from = NoIndex
                  /\ br[i].kind = ba[i].kind
                  /\ ba[i].kind \in {"Put", "Delete", "Get"}
                  /\ ba[i].kind = "Get" => ba[i].str = LockNone

C7_Witness ==
    /\ Replied /\ ~called /\ Len(ba) = 2
    /\ \E i \in 1..Len(ba) : ba[i].kind = "Get"
    /\ \E i \in 1..Len(ba) : ba[i].kind = "Delete"

\* C8: the reassembled reply.  Request i is stripped when it is a Put, a
\* Delete or a non-locking Get answered locally; the other requests are
\* forwarded in their order.
Stripped(i) ==
    \/ ba[i].kind \in {"Put", "Delete"}
    \/ ba[i].kind = "Get" /\ ba[i].str = LockNone /\ br[i].from = NoIndex

FwdPos(i) == Cardinality({m \in 1..i : ~Stripped(m)})

Reassembled ==
    /\ Len(br) = Len(ba)
    /\ Len(srv) = Cardinality({m \in 1..Len(ba) : ~Stripped(m)})
    /\ Len(sent) = Len(srv)
    /\ \A i \in 1..Len(ba) :
         /\ br[i].kind = ba[i].kind
         /\ IF Stripped(i) THEN br[i].from = NoIndex
            ELSE /\ sent[FwdPos(i)] = IF ba[i].kind = "CPut" THEN LockingGetFor(ba[i])
                                      ELSE ba[i]
                 /\ br[i].from = NoIndex \/ br[i] = srv[FwdPos(i)]
                 /\ ba[i].kind = "CPut" => br[i].from = NoIndex
                 /\ (ba[i].kind = "Other" \/ (ba[i].kind = "Get" /\ ba[i].str = LockNone))
                        => br[i] = srv[FwdPos(i)]

ServerSucceeded == called /\ pErr.kind # "Server"

\* C8 as claimed: whenever the forwarded part succeeds, n responses come back.
C8_ReassemblyAlways ==
    (Replied /\ ServerSucceeded) => (pErr = NoErr /\ Reassembled)

\* C8 as amended: whenever the forwarded part succeeds, either the reply is
\* reassembled with one response per request, or the post-processing of a
\* transformation failed (a ConditionalPut whose condition fails, a scan in
\* an unsupported format) and only that error is returned.
C8_Reassembly ==
    (Replied /\ ServerSucceeded) =>
        \/ pErr = NoErr /\ Reassembled
        \/ /\ pErr.kind = "ConditionFailed"
           /\ br = <<>>
           /\ \E i \in 1..Len(ba) : ba[i].kind = "CPut"
        \/ /\ pErr.kind = "AssertionFailed"
           /\ br = <<>>
           /\ \E i \in 1..Len(ba) :
                ba[i].kind \in {"Scan", "RevScan"} /\ ba[i].fmt # KEY_VALUES

C8_Witness ==
    /\ Answered /\ called /\ Len(ba) = 2
    /\ ba[1].kind = "Put" /\ ba[2].kind = "Other"
    /\ br[2].from = 0

\* C9: a ConditionalPut whose condition holds is in the buffer under its key
\* with its value and seq once the batch is answered, and is answered at its
\* index with an empty ConditionalPutResponse; it is not in the buffer when
\* the wrapped sender fails.
C9_CPutSuccess ==
    /\ Answered =>
         \A i \in 1..Len(ba) :
            ba[i].kind = "CPut" =>
                /\ HasEntry(buffer, ba[i].key, ba[i].val, ba[i].seq)
                /\ br[i] = Resp("CPut", NoValue, <<>>, FALSE, NoIndex)
    /\ (Replied /\ pErr.kind = "Server") =>
         \A i \in 1..Len(ba) :
            ba[i].kind = "CPut" => ~SeqBuffered(buffer, ba[i].seq)

\* C10: when the condition of a ConditionalPut fails on the value the wrapped
\* sender returned for its key, the reply is a condition-failed error with
\* the ConditionalPut's index in the client's batch and no response, and the
\* ConditionalPut's value is not in the buffer; no other reply is a
\* condition-failed error.
CPutFails(i) ==
    /\ ba[i].kind = "CPut"
    /\ MaybeConditionFailedError(ba[i].exp, kv[ba[i].key], IsPresent(kv[ba[i].key]),
                                 ba[i].allow)

FirstFailing == CHOOSE i \in 1..Len(ba) : CPutFails(i) /\ \A m \in 1..(i - 1) : ~CPutFails(m)

C10_CPutFailure ==
    (Replied /\ ServerSucceeded) =>
        IF \E i \in 1..Len(ba) : CPutFails(i)
        THEN /\ pErr = Err("ConditionFailed", FirstFailing - 1)
             /\ br = <<>>
             /\ ~SeqBuffered(buffer, ba[FirstFailing].seq)
        ELSE pErr.kind # "ConditionFailed"

C10_Witness ==
    /\ Replied /\ pErr = Err("ConditionFailed", 1)
    /\ ba[1].kind = "Put" /\ ba[2].kind = "CPut"
    /\ sent[1].kind = "Get" /\ Len(sent) = 1

\* Does the response r of a read on key k carry the value v for k?
Observes(q, r, k, v) ==
    IF q.kind = "Get" THEN r.val = v
    ELSE \E n \in 1..Len(r.rows) : r.rows[n] = Row(k, v)

\* The read at index j reads key k: a Get on k, or a Scan/ReverseScan whose
\* range contains k.
ReadsKey(q, k) ==
    \/ q.kind = "Get" /\ q.key = k
    \/ q.kind \in {"Scan", "RevScan"} /\ q.key <= k /\ k < q.endKey

\* The ConditionalPut at index i is followed at index j by a read of its key
\* at a sequence number >= its own, with no other write on that key between.
CPutThenRead(i, j) ==
    /\ i < j
    /\ ba[i].kind = "CPut"
    /\ ReadsKey(ba[j], ba[i].key)
    /\ ba[j].seq >= ba[i].seq
    /\ \A m \in (i + 1)..(j - 1) : ~(IsWrite(ba[m]) /\ ba[m].key = ba[i].key)

\* C11: in an answered batch where a ConditionalPut on key K at index i
\* succeeds, a Get on K or a Scan/ReverseScan over K at a later index j with a
\* sequence number >= the ConditionalPut's carries the ConditionalPut's value
\* in its response.
C11_ReadOwnCPutInBatch ==
    Answered =>
        \A i \in 1..Len(ba) : \A j \in 1..Len(ba) :
            CPutThenRead(i, j) => Observes(ba[j], br[j], ba[i].key, ba[i].val)

\* The buffered entries of key k written before sequence number s.
BufferedBefore(k, s) == {e \in EntriesOf(buffer, k) : e.seq < s}

\* The ConditionalPut at index i finds a buffered write on its key: one of an
\* earlier batch, or of a Put or Delete before it in this batch.
CPutOnBuffered(i) ==
    /\ ba[i].kind = "CPut"
    /\ BufferedBefore(ba[i].key, ba[i].seq) # {}
    /\ \A m \in 1..(i - 1) : ~(ba[m].kind = "CPut" /\ ba[m].key = ba[i].key)

\* Does the condition of the ConditionalPut at index i fail on the newest
\* buffered value of its key?
FailsOnBuffer(i) ==
    LET cur == Newest(BufferedBefore(ba[i].key, ba[i].seq)).val
    IN MaybeConditionFailedError(ba[i].exp, cur, IsPresent(cur), ba[i].allow)

\* C12: a ConditionalPut on a key with a buffered write visible at its
\* sequence is evaluated against that buffered value (missing for a
\* tombstone), not against the value the wrapped sender returns, and its
\* locking Get is sent all the same.
C12_CPutReadsBuffer ==
    (Replied /\ ServerSucceeded) =>
        \A i \in 1..Len(ba) :
            CPutOnBuffered(i) =>
                /\ \E n \in 1..Len(sent) : sent[n] = LockingGetFor(ba[i])
                /\ IF FailsOnBuffer(i)
                   THEN pErr.kind = "ConditionFailed" /\ pErr.index <= i - 1
                   ELSE pErr # Err("ConditionFailed", i - 1)

\* The wrapped sender was handed a batch without EndTxn by the enabled
\* interceptor and returned an error; the call replied or hit log.Fatal.
ServerFailed ==
    /\ phase \in {"replied", "crashed"}
    /\ enabled /\ ~HasEndTxn(ba)
    /\ called /\ srvErr.kind = "Server"

\* The 0-based positions, in the client's batch, of the requests that were
\* forwarded: those without a stripped transformation.
StrippedIdx == {ts[n].index : n \in {m \in 1..Len(ts) : ts[m].stripped}}
ForwardedIdx == (0..(Len(ba) - 1)) \ StrippedIdx

\* The position in the client's batch of the request forwarded at index j.
OrigIndex(j) == CHOOSE i \in ForwardedIdx : Cardinality({m \in ForwardedIdx : m < i}) = j

\* The request at position i of the client's batch was forwarded unchanged.
ForwardedUnchanged(i) == \A n \in 1..Len(ts) : ts[n].index # i

\* C13: when the wrapped sender fails a batch without EndTxn with an error of
\* index j and the request forwarded at j was forwarded unchanged, SendLocked
\* returns the error with the position of that request in the client's
\* batch, whatever non-stripped transformations the batch holds elsewhere; an
\* error without index is returned without index.
C13_ErrorIndexInvariance ==
    ServerFailed =>
        IF srvErr.index = NoIndex
        THEN phase = "replied" /\ pErr = srvErr
        ELSE ForwardedUnchanged(OrigIndex(srvErr.index)) =>
                 /\ phase = "replied"
                 /\ pErr = Err("Server", OrigIndex(srvErr.index))

\* The wrapped sender failed a batch with EndTxn.
FlushFailed == Flushed /\ called /\ srvErr.kind = "Server"

\* C14: when a batch with EndTxn is sent behind a flush prefix of N writes
\* and the wrapped sender returns an error with index j, the error returned
\* has no index if j < N and the index j - N otherwise; nothing else is
\* returned.
C14_FlushErrorIndex ==
    FlushFailed =>
        /\ br = <<>>
        /\ pErr = IF srvErr.index = NoIndex THEN srvErr
                  ELSE IF srvErr.index < Len(FlushPrefix) THEN Err("Server", NoIndex)
                  ELSE Err("Server", srvErr.index - Len(FlushPrefix))

\* An error on the first request of the client's batch, behind a flush prefix.
C14_Witness ==
    /\ FlushFailed
    /\ Len(FlushPrefix) > 0
    /\ srvErr.index = Len(FlushPrefix)
    /\ pErr.index = 0

\* Every (value, seq) buffered in buf, under whatever key.
AllEntries(buf) == UNION {{r.vals[n] : n \in 1..Len(r.vals)} : r \in buf}

\* The records of buf are records of buf2 with the same id and key, and their
\* values are the first values of these.
KeptIn(buf, buf2) ==
    \A r \in buf :
        \E q \in buf2 :
            /\ q.id = r.id /\ q.key = r.key
            /\ Len(q.vals) >= Len(r.vals)
            /\ SubSeq(q.vals, 1, Len(r.vals)) = r.vals

\* The (value, seq) of the Puts and Deletes of batch b.
BlindEntries(b) ==
    {BufferedValue(b[i].val, b[i].seq) : i \in {m \in 1..Len(b) : b[m].kind \in {"Put", "Delete"}}}

\* The wrapped sender's error does not point to a transformed request (the
\* case adjustError has no translation for).
ErrorOffTransformed ==
    srvErr.index # NoIndex => ForwardedUnchanged(OrigIndex(srvErr.index))

\* A step in which the wrapped sender fails a batch without EndTxn handed to
\* it by the enabled interceptor, with such an error.
FailingSend ==
    /\ phase = "idle" /\ ServerFailed' /\ ErrorOffTransformed'

\* C15: when the wrapped sender fails a batch without EndTxn, the values
\* buffered by earlier batches are unchanged, the buffer gains exactly the
\* values of the batch's Puts and Deletes, and SendLocked returns the error
\* and nothing else.
C15_NoRollbackOnError ==
    [][FailingSend =>
          /\ KeptIn(buffer, buffer')
          /\ AllEntries(buffer') = AllEntries(buffer) \cup BlindEntries(ba')
          /\ phase' = "replied"
          /\ br' = <<>>
          /\ pErr'.kind = "Server"]_vars

\* vals is strictly increasing in seq.
RECURSIVE StrictlyIncreasing(_, _)
StrictlyIncreasing(vals, n) ==
    IF n >= Len(vals) THEN TRUE
    ELSE vals[n].seq < vals[n + 1].seq /\ StrictlyIncreasing(vals, n + 1)

\* C16: with write sequence numbers assigned in increasing request order,
\* every buffered record has a non-empty list of values, strictly increasing
\* in seq.
C16_ValsIncreasing ==
    \A r \in buffer : Len(r.vals) > 0 /\ StrictlyIncreasing(r.vals, 1)

\* C17: no two buffered records have the same key.
C17_OneRecordPerKey ==
    \A r \in buffer : \A q \in buffer : r.key = q.key => r = q

\* The disabled interceptor answered a batch.
RepliedDisabled == phase = "replied" /\ ~enabled

\* C18: a disabled interceptor hands the client's batch as it is to the
\* wrapped sender and returns its responses and its error as they are; its
\* buffer stays empty.
C18_DisabledTransparent ==
    RepliedDisabled =>
        /\ called /\ sent = ba
        /\ br = srv /\ pErr = srvErr
        /\ (srvErr = NoErr => Len(br) = Len(ba))
        /\ buffer = {} /\ bufferIDAlloc = 0

\* A disabled interceptor answered a batch with a Put and an EndTxn.
C18_Witness ==
    /\ RepliedDisabled
    /\ \E i \in 1..Len(ba) : ba[i].kind = "Put"
    /\ \E i \in 1..Len(ba) : ba[i].kind = "EndTxn"
    /\ Len(br) = 2

\* The buffer records a transmitted list stands for.
RecordsOf(writes) ==
    {[id |-> writes[n].ID, key |-> writes[n].Key,
      vals |-> [m \in 1..Len(writes[n].Vals) |->
                   BufferedValue(writes[n].Vals[m].Val, writes[n].Vals[m].Seq)]] :
        n \in 1..Len(writes)}

\* The step of populateLeafInputState on an enabled root with a non-empty
\* buffer, and the step of initializeLeaf from a non-empty list.
Exporting == ~tis.populated /\ tis'.populated /\ enabled /\ buffer # {}
Importing == ~isLeaf /\ isLeaf' /\ Len(tis.BufferedWrites) > 0

\* C19: populateLeafInputState writes one entry per record of the buffer B
\* of an enabled root, with the record's id, key and (value, seq) list, and
\* initializeLeaf on a fresh interceptor yields, for every order of the
\* entries, an enabled interceptor whose buffer has exactly these records:
\* the records of B.
C19_LeafRoundTrip ==
    [][/\ Exporting =>
            /\ Len(tis'.BufferedWrites) = Cardinality(buffer)
            /\ RecordsOf(tis'.BufferedWrites) = buffer
       /\ Importing =>
            /\ enabled'
            /\ buffer' = RecordsOf(tis.BufferedWrites)
            /\ Cardinality(buffer') = Len(tis.BufferedWrites)]_vars

\* A leaf initialized from a root with two records.
C19_Witness ==
    /\ isLeaf /\ enabled
    /\ Cardinality(buffer) = 2
    /\ buffer = RecordsOf(tis.BufferedWrites)

\* A step in which a leaf initialized from a non-empty snapshot is handed a
\* batch with a Put, a Delete or a ConditionalPut.
LeafWrites ==
    /\ isLeaf /\ enabled
    /\ phase = "idle" /\ phase' # "idle"
    /\ \E i \in 1..Len(ba') : IsWrite(ba'[i])

\* C20: a batch with a write handed to a leaf raises an assertion and leaves
\* the leaf's buffer and id allocator as they were.
C20_LeafNeverMutates ==
    [][LeafWrites =>
          /\ pErr'.kind = "AssertionFailed"
          /\ buffer' = buffer
          /\ bufferIDAlloc' = bufferIDAlloc]_vars

\* A step of rollbackToSavepointLocked, of epochBumpedLocked.
RollingBack == hook'.n = hook.n + 1 /\ hook'.kind = "rollbackToSavepoint"
EpochBumping == hook'.n = hook.n + 1 /\ hook'.kind = "epochBumped"

\* C21: after rollbackToSavepoint to a savepoint taken at sequence s the
\* buffer of the enabled interceptor holds no value with seq > s and no
\* record without values; after epochBumped the buffer is empty.
C21_RollbackDiscards ==
    [][/\ (enabled /\ RollingBack) =>
            /\ \A e \in AllEntries(buffer') : e.seq <= hook'.seqNum
            /\ \A r \in buffer' : Len(r.vals) > 0
       /\ (enabled /\ EpochBumping) => buffer' = {}]_vars

\* The bytes the buffer holds: len(key) + len(value) for every buffered
\* value, a key being one byte long, a present value one byte and a tombstone
\* none.
BufferBudget == 2

ValueBytes(e) == 1 + (IF IsPresent(e.val) THEN 1 ELSE 0)

RECURSIVE SumBytes(_)
SumBytes(E) ==
    IF E = {} THEN 0
    ELSE LET e == CHOOSE x \in E : TRUE IN ValueBytes(e) + SumBytes(E \ {e})

BufferBytes(buf) == SumBytes(AllEntries(buf))

\* A step in which the enabled interceptor answers a batch without EndTxn.
Answering == enabled /\ phase = "idle" /\ phase' = "replied" /\ ~HasEndTxn(ba')

\* The batch handed to the wrapped sender starts with the writes of the flush
\* of buf.
FlushedAhead(buf, sentBa) ==
    /\ buf # {}
    /\ Len(sentBa) >= Cardinality(buf)
    /\ SubSeq(sentBa, 1, Cardinality(buf)) = FlushReqs(buf, First(buf), <<>>)

\* C22: the bytes buffered never exceed the budget; when the writes of a
\* batch do not fit, the buffered writes are emitted ahead of the forwarded
\* batch or a write of the batch is forwarded instead of being buffered.
C22_ByteBudget ==
    [][Answering =>
          /\ BufferBytes(buffer') <= BufferBudget
          /\ BufferBytes(buffer) + SumBytes(BlindEntries(ba')) > BufferBudget =>
                \/ FlushedAhead(buffer, sent')
                \/ \E i \in 1..Len(ba') : \E n \in 1..Len(sent') :
                       IsWrite(ba'[i]) /\ sent'[n] = ba'[i]]_vars

\* C23: for every Put or Delete of an answered batch that requires the
\* exclusive lock (MustAcquireExclusiveLock), the batch handed to the wrapped
\* sender holds a locking Get on its key, and the write itself is buffered
\* and not forwarded.
C23_LockForBufferedWrite ==
    Replied =>
        \A i \in 1..Len(ba) :
            (ba[i].kind \in {"Put", "Delete"} /\ ba[i].mustAcquireExclusiveLock) =>
                /\ \E n \in 1..Len(sent) :
                       /\ sent[n].kind = "Get" /\ sent[n].key = ba[i].key
                       /\ sent[n].str = LockExclusive
                /\ \A n \in 1..Len(sent) : sent[n] # ba[i]
                /\ BufferedValue(ba[i].val, ba[i].seq) \in AllEntries(buffer)

\* A scan in a format the merge does not support.
UnsupportedScan(q) ==
    q.kind \in {"Scan", "RevScan"} /\ q.fmt \in {BATCH_RESPONSE, COL_BATCH_RESPONSE}

InRange(k, q) == q.key <= k /\ k < q.endKey

\* The keys written before request i of batch b is transformed: the keys of
\* the records of buf, the keys of the writes acknowledged and the keys of
\* the Puts and Deletes before i in b.
WrittenBefore(buf, ack, b, i) ==
    {r.key : r \in buf} \cup ack
        \cup {b[m].key : m \in {n \in 1..(i - 1) : b[n].kind \in {"Put", "Delete"}}}

\* The keys of the writes buffered when request i of batch b is transformed.
BufferedBeforeScan(ack, b, i) ==
    ack \cup {b[m].key : m \in {n \in 1..(i - 1) : b[n].kind \in {"Put", "Delete"}}}

\* C24: a Scan or ReverseScan in the format BATCH_RESPONSE or
\* COL_BATCH_RESPONSE whose range holds the key of a buffered write makes
\* SendLocked return an assertion-failed error and no response, the buffer
\* holding what it held and the blind writes of the batch; one whose range
\* holds no written key is answered with the response of the wrapped sender
\* as it is.
C24_UnsupportedScanFormat ==
    [][(enabled /\ phase = "idle" /\ phase' = "replied" /\ ~HasEndTxn(ba')) =>
          \A i \in 1..Len(ba') :
              UnsupportedScan(ba'[i]) =>
                  IF \E k \in BufferedBeforeScan(acked, ba', i) : InRange(k, ba'[i])
                  THEN /\ pErr' = Err("AssertionFailed", NoIndex)
                       /\ br' = <<>>
                       /\ KeptIn(buffer, buffer')
                       /\ AllEntries(buffer') = AllEntries(buffer) \cup BlindEntries(ba')
                  ELSE (pErr' = NoErr
                        /\ \A k \in WrittenBefore(buffer, acked, ba', i) : ~InRange(k, ba'[i])) =>
                           \E n \in 1..Len(sent') : sent'[n] = ba'[i] /\ br'[i] = srv'[n]]_vars

\* The writes on key k handed to the interceptor before request i of batch b
\* is transformed: those of the earlier batches and those before i in b.
WritesOnBefore(k, b, i) ==
    {w \in written : w.key = k}
        \cup {w \in Writes(SubSeq(b, 1, i - 1)) : w.key = k}

\* C25: a Get on a key without buffered write is forwarded unchanged and
\* has no transformation, whatever Puts, Deletes, Gets, Scans and
\* ReverseScans came before; a Get on a key with buffered writes that is
\* answered from the buffer is answered with a value written to its key.
C25_GetServedFromOwnKey ==
    [][Answering =>
          \A i \in 1..Len(ba') :
              ba'[i].kind = "Get" =>
                  IF WritesOnBefore(ba'[i].key, ba', i) = {}
                  THEN /\ \E n \in 1..Len(sent') : sent'[n] = ba'[i]
                       /\ \A n \in 1..Len(ts') : ts'[n].index # i - 1
                       /\ pErr' = NoErr => br'[i].from # NoIndex
                  ELSE (pErr' = NoErr /\ br'[i].from = NoIndex) =>
                           \E w \in WritesOnBefore(ba'[i].key, ba', i) :
                               w.val = br'[i].val]_vars

\* The write that flushes record r: its last value, with that value's seq.
LastWrite(r) ==
    LET e == r.vals[Len(r.vals)]
    IN IF IsPresent(e.val) THEN PutReq(r.key, e.val, e.seq) ELSE DelReq(r.key, e.seq)

BufferedKeys == {r.key : r \in buffer}

\* C26: a batch with EndTxn is forwarded behind exactly one write per
\* buffered key, in ascending key order, each with the last value of the
\* key's record and that value's seq; with an empty buffer the batch is
\* forwarded as it is.
C26_FlushedBatchShape ==
    Flushed =>
        /\ called
        /\ IF buffer = {} THEN sent = ba
           ELSE /\ Len(sent) = Cardinality(BufferedKeys) + Len(ba)
                /\ SubSeqFrom(sent, Len(sent) - Len(ba)) = ba
                /\ \A j \in 1..(Len(sent) - Len(ba)) :
                     /\ j > 1 => sent[j - 1].key < sent[j].key
                     /\ \E r \in buffer : sent[j] = LastWrite(r)

\* A step in which the enabled interceptor answers a batch with EndTxn.
Flushing == enabled /\ phase = "idle" /\ phase' = "replied" /\ HasEndTxn(ba')

\* C27: a batch with EndTxn, at whatever position, is not transformed: all
\* its requests are forwarded as they are behind the flush prefix, and the
\* interceptor's buffer, seek key and id allocator stay as they were.
C27_EndTxnBypassesTransformation ==
    [][Flushing =>
          /\ called'
          /\ Len(sent') = Cardinality(buffer) + Len(ba')
          /\ SubSeqFrom(sent', Cardinality(buffer)) = ba'
          /\ ts' = <<>>
          /\ buffer' = buffer
          /\ bufferSeek' = bufferSeek
          /\ bufferIDAlloc' = bufferIDAlloc]_vars

\* EndTxn first, then a Get on a buffered key, forwarded behind the prefix.
C27_Witness ==
    /\ Flushed /\ Len(ba) = 2 /\ buffer # {}
    /\ ba[1].kind = "EndTxn"
    /\ ba[2].kind = "Get" /\ EntriesOf(buffer, ba[2].key) # {}
    /\ sent[Len(sent)] = ba[2]

\* C28: when a batch of n requests with EndTxn is flushed behind N writes and
\* the wrapped sender returns N + n responses, SendLocked returns the last n
\* of them in their order: response i is the one of the client's request i.
C28_FlushResponseStripping ==
    (Flushed /\ called /\ srvErr = NoErr) =>
        /\ pErr = NoErr
        /\ Len(srv) = Len(sent)
        /\ Len(br) = Len(ba)
        /\ \A i \in 1..Len(ba) :
             /\ br[i] = srv[Len(FlushPrefix) + i]
             /\ br[i].from = Len(FlushPrefix) + i - 1
             /\ br[i].kind = ba[i].kind

\* Two responses returned behind two stripped ones.
C28_Witness ==
    /\ Flushed /\ srvErr = NoErr
    /\ Len(FlushPrefix) = 2 /\ Len(br) = 2
    /\ br[1].from = 2

\* The wrapped sender's error points to the forwarded request of a
\* non-stripped transformation.
ErrorOnTransformed ==
    /\ ServerFailed /\ srvErr.index # NoIndex
    /\ ~ForwardedUnchanged(OrigIndex(srvErr.index))

\* C29: when the wrapped sender's error index points to the forwarded request
\* of a non-stripped transformation, adjustError returns no remapped error:
\* it ends in log.Fatal.
C29_FatalOnTransformedIndex ==
    ErrorOnTransformed => phase = "crashed"

\* The error points to an overlapping Scan behind a request forwarded
\* unchanged.
C29_Witness ==
    /\ ErrorOnTransformed /\ phase = "crashed"
    /\ srvErr.index = 1
    /\ ba[OrigIndex(1) + 1].kind = "Scan"
    /\ ForwardedUnchanged(OrigIndex(0))

\* The enabled interceptor transformed a batch without EndTxn: it replied or
\* ended in log.Fatal.
Transformed == phase \in {"replied", "crashed"} /\ enabled /\ ~HasEndTxn(ba)

\* The position (from 1) in the forwarded batch of the request at position i
\* (from 1) of the client's batch, when it is forwarded.
SentPos(i) == Cardinality({m \in ForwardedIdx : m <= i - 1})

\* C30: every ConditionalPut of a batch without EndTxn is replaced, at its
\* place among the forwarded requests, by a Get on its key at its sequence
\* number, with exclusive locking strength and LockNonExisting = (no expected
\* bytes) or AllowIfDoesNotExist; no ConditionalPut is forwarded.
C30_CPutDecomposition ==
    Transformed =>
        /\ \A n \in 1..Len(sent) : sent[n].kind # "CPut"
        /\ \A i \in 1..Len(ba) :
             ba[i].kind = "CPut" =>
                 /\ called
                 /\ SentPos(i) \in 1..Len(sent)
                 /\ sent[SentPos(i)].kind = "Get"
                 /\ sent[SentPos(i)].key = ba[i].key
                 /\ sent[SentPos(i)].seq = ba[i].seq
                 /\ sent[SentPos(i)].str = LockExclusive
                 /\ sent[SentPos(i)].lockNonExisting = (ba[i].exp = NoValue \/ ba[i].allow)

\* A ConditionalPut without expected bytes and without AllowIfDoesNotExist
\* behind a stripped Put: its Get, first of the forwarded batch, locks a
\* non-existing key.
C30_Witness ==
    /\ Transformed /\ Len(ba) = 2 /\ Len(sent) = 1
    /\ ba[1].kind = "Put" /\ ba[2].kind = "CPut"
    /\ ba[2].exp = NoValue /\ ~ba[2].allow
    /\ sent[1].lockNonExisting

\* The writes on key k handed to the interceptor with a sequence number
\* <= s.
WrittenVisible(k, s) == {w \in written : w.key = k /\ w.seq <= s}

\* Request i of the batch has a stripped transformation.
StrippedAt(i) == i - 1 \in StrippedIdx

\* C31: a non-locking Get on a key with a visible buffered write is not
\* forwarded; a locking Get on such a key is forwarded unchanged, at its place
\* among the forwarded requests, and answered with the visible buffered value
\* (empty for a tombstone), whatever the wrapped sender returned for it.
C31_LockingGetOnBuffered ==
    Answered =>
        \A i \in 1..Len(ba) :
            (ba[i].kind = "Get" /\ WrittenVisible(ba[i].key, ba[i].seq) # {}) =>
                IF ba[i].str = LockNone
                THEN /\ StrippedAt(i)
                     /\ Len(sent) = Len(ba) - Cardinality(StrippedIdx)
                ELSE /\ ~StrippedAt(i)
                     /\ sent[SentPos(i)] = ba[i]
                     /\ br[i].kind = "Get"
                     /\ br[i].val = Newest(WrittenVisible(ba[i].key, ba[i].seq)).val

\* The keys of the rows of a scan response.
RowKeys(r) == {r.rows[n].key : n \in 1..Len(r.rows)}

\* The newest write on key k visible at sequence s is a tombstone.
TombstoneAt(k, s) ==
    /\ WrittenVisible(k, s) # {}
    /\ ~IsPresent(Newest(WrittenVisible(k, s)).val)

\* C32: in the merged rows of a Scan or ReverseScan at sequence s no key
\* appears whose visible buffered entry is a tombstone, whether or not the
\* wrapped sender returned a row for it; a key without visible buffered entry
\* keeps the row the wrapped sender returned for it.
C32_TombstoneSuppression ==
    Answered =>
        \A i \in 1..Len(ba) :
            (ba[i].kind \in {"Scan", "RevScan"} /\ ba[i].fmt = KEY_VALUES) =>
                \A k \in Keys :
                    InRange(k, ba[i]) =>
                        /\ TombstoneAt(k, ba[i].seq) => k \notin RowKeys(br[i])
                        /\ (WrittenVisible(k, ba[i].seq) = {} /\ IsPresent(kv[k])) =>
                               \E n \in 1..Len(br[i].rows) : br[i].rows[n] = Row(k, kv[k])

\* The keys of the writes handed to the interceptor before request i of the
\* batch is transformed: they have a smaller sequence number than every write
\* at or behind i.
KeysWrittenBefore(i) ==
    {w.key : w \in {x \in written :
                       \A m \in i..Len(ba) : IsWrite(ba[m]) => x.seq < ba[m].seq}}

\* Request i of the batch has a transformation.
TransformedAt(i) == \E n \in 1..Len(ts) : ts[n].index = i - 1

\* C33: every Scan and ReverseScan of a batch without EndTxn is forwarded
\* unchanged at its place among the forwarded requests; it has a
\* transformation exactly when its range holds the key of a write buffered
\* before it, and without one it is answered with the wrapped sender's
\* response as it is.
C33_ScansAlwaysForwarded ==
    Replied =>
        \A i \in 1..Len(ba) :
            ba[i].kind \in {"Scan", "RevScan"} =>
                /\ called
                /\ sent[SentPos(i)] = ba[i]
                /\ TransformedAt(i) <=> \E k \in KeysWrittenBefore(i) : InRange(k, ba[i])
                /\ (~TransformedAt(i) /\ pErr = NoErr) => br[i] = srv[SentPos(i)]

\* populateLeafInputState runs, initializeLeaf runs.
Populating == ~tis.populated /\ tis'.populated
Initializing == ~isLeaf /\ isLeaf'

\* The list holds one entry per record of buf, in ascending order of the keys
\* (of the ids, for records with the same key).
ExportOf(writes, buf) ==
    /\ Len(writes) = Cardinality(buf)
    /\ \A r \in buf : \E j \in 1..Len(writes) :
           writes[j] = [ID |-> r.id, Key |-> r.key, Vals |-> exportVals(r.vals)]
    /\ \A j \in 2..Len(writes) :
           \/ writes[j - 1].Key < writes[j].Key
           \/ writes[j - 1].Key = writes[j].Key /\ writes[j - 1].ID < writes[j].ID

\* The disabled leaf answered a batch.
LeafTransparent ==
    (isLeaf /\ ~enabled /\ phase = "replied") =>
        /\ called /\ sent = ba /\ br = srv /\ pErr = NoErr
        /\ buffer = {} /\ bufferIDAlloc = 0

\* C34: populateLeafInputState writes no buffered writes when the interceptor
\* is disabled or its buffer is empty, and one entry per record in ascending
\* key order otherwise; initializeLeaf with an empty list disables the leaf,
\* which then forwards every batch as it is, and initializeLeaf leaves the
\* leaf's id allocator at its initial value.
C34_LeafExportImport ==
    /\ [][Populating =>
             IF ~enabled \/ buffer = {}
             THEN tis'.BufferedWrites = tis.BufferedWrites /\ tis'.BufferedWrites = <<>>
             ELSE ExportOf(tis'.BufferedWrites, buffer)]_vars
    /\ [][Initializing =>
             /\ Len(tis.BufferedWrites) = 0 => (~enabled' /\ buffer' = {})
             /\ Len(tis.BufferedWrites) > 0 => enabled'
             /\ bufferIDAlloc' = 0]_vars
    /\ []LeafTransparent

\* A leaf made from an empty list forwarded a batch with a Put.
C34_Witness ==
    /\ isLeaf /\ ~enabled /\ phase = "replied"
    /\ tis.populated /\ tis.BufferedWrites = <<>>
    /\ \E i \in 1..Len(ba) : ba[i].kind = "Put"
    /\ sent = ba

\* The server's rows for a scan of [k, e), whatever the store holds.
ServerRows(q) ==
    {IF q.kind = "RevScan" THEN RowsDesc(store, q.key, q.endKey)
                           ELSE RowsAsc(store, q.key, q.endKey) :
        store \in [Keys -> {NoValue, SrvVal}]}

\* The merges the interceptor can be asked for: a Scan or ReverseScan of any
\* range at any sequence number, with any rows of the server for it.
MergeInputs ==
    {<<[q EXCEPT !.seq = s], rows>> :
        q \in KVScanShapes, s \in 0..MaxSeq,
        rows \in UNION {ServerRows(q2) : q2 \in KVScanShapes}}

\* C35: for every buffer, scan request and list of server rows, the counting
\* pass of the merge counts as many rows as the materializing pass writes; no
\* call of SendLocked ends in the panic of toScanResp / toReverseScanResp or
\* of a write behind the last row slot.
C35_TwoPassAgreement ==
    /\ pErr.kind # "Panic"
    /\ phase = "idle" =>
         \A in \in {x \in MergeInputs : x[2] \in ServerRows(x[1])} :
             /\ mergeWithResp(Twb(buffer, bufferSeek, bufferIDAlloc), in[1],
                              Resp(in[1].kind, NoValue, in[2], FALSE, 0),
                              in[1].kind = "RevScan").respSize
                  = mergeWithResp(Twb(buffer, bufferSeek, bufferIDAlloc), in[1],
                                  Resp(in[1].kind, NoValue, in[2], FALSE, 0),
                                  in[1].kind = "RevScan").filled
             /\ mergeWithResp(Twb(buffer, bufferSeek, bufferIDAlloc), in[1],
                              Resp(in[1].kind, NoValue, in[2], FALSE, 0),
                              in[1].kind = "RevScan").err = "None"

\* A Scan answered with a row of the buffer and a row of the server.
C35_Witness ==
    /\ Answered
    /\ \E i \in 1..Len(ba) :
         /\ ba[i].kind = "Scan" /\ TransformedAt(i)
         /\ Len(br[i].rows) = 2
         /\ Len(srv[SentPos(i)].rows) = 1
         /\ br[i].rows[2] = srv[SentPos(i)].rows[1]

C37_WriteTouchesOwnRecord ==
    [][Answering =>
          /\ \A r \in buffer : r.key \notin WriteKeys(ba') => r \in buffer'
          /\ \A q \in buffer' : q.key \notin WriteKeys(ba') => q \in buffer
          /\ \A i \in 1..Len(ba') :
                ba'[i].kind \in {"Put", "Delete"} =>
                    HasEntry(buffer', ba'[i].key, ba'[i].val, ba'[i].seq)]_vars

\* C38: flushWithEndTxn leaves the buffer as it is, whether the wrapped
\* sender succeeds or fails: in the step the buffer holds exactly the records
\* it held, and the batch forwarded is the one the same batch would be
\* forwarded as once more.
C38_FlushKeepsBuffer ==
    /\ [][Flushing => (buffer' = buffer /\ called')]_vars
    /\ [](Flushed =>
            flushWithEndTxn(Twb(buffer, bufferSeek, bufferIDAlloc), kv, ba, NoErr).sent = sent)

\* The flush of two records with a wrapped sender that failed.
C38_Witness ==
    /\ Flushed /\ srvErr.kind = "Server" /\ pErr # NoErr
    /\ Cardinality(buffer) = 2
    /\ Len(sent) = Len(ba) + 2

\* The (value, seq) written by request m of the batch.
EntryOf(m) == BufferedValue(ba[m].val, ba[m].seq)

\* C39: when the ConditionalPut at index i of a batch is the one whose
\* condition fails, the error is returned with the writes of the
\* ConditionalPuts before i, whose conditions succeeded, in the buffer, with
\* none of the ConditionalPuts from i on, and with every Put and Delete of the
\* batch, before and behind i.
C39_PartialBuffering ==
    (Replied /\ ServerSucceeded /\ \E i \in 1..Len(ba) : CPutFails(i)) =>
        /\ pErr.kind = "ConditionFailed"
        /\ \A m \in 1..Len(ba) :
             /\ (ba[m].kind = "CPut" /\ m < FirstFailing) => EntryOf(m) \in AllEntries(buffer)
             /\ (ba[m].kind = "CPut" /\ m >= FirstFailing) => EntryOf(m) \notin AllEntries(buffer)
             /\ ba[m].kind \in {"Put", "Delete"} => EntryOf(m) \in AllEntries(buffer)

\* Two ConditionalPuts, the second one failing: the first one is buffered.
C39_Witness ==
    /\ Replied /\ ServerSucceeded /\ Len(ba) = 2
    /\ ba[1].kind = "CPut" /\ ~CPutFails(1)
    /\ CPutFails(2)
    /\ EntryOf(1) \in AllEntries(buffer)
    /\ pErr = Err("ConditionFailed", 1)

\* A ConditionalPut failing ahead of a Put and ahead of a ConditionalPut whose
\* condition holds.
C39_WitnessBehind ==
    /\ Replied /\ ServerSucceeded /\ Len(ba) = 2
    /\ CPutFails(1) /\ ba[2].kind \in {"Put", "CPut"} /\ ~CPutFails(2)

====
